---- MODULE Spec2Model ----
(***************************************************************************)
(* Shai-Hulud v2 detection and cleanup tools (cleanup.js, detector.js).    *)
(* The host is a small filesystem (paths are sequences of segments), a     *)
(* process table and the operator's answers; the two tools are the two     *)
(* programs that can be started on it.                                     *)
(***************************************************************************)
EXTENDS Integers, Sequences, FiniteSets, TLC

VARIABLES
  tool,        \* which entry point runs: "cleanup" or "detector"
  pc,          \* position of the running tool
  files,       \* paths that exist as regular files
  dirs,        \* paths that exist as directories
  manifest,    \* content of every package.json in files
  procs,       \* names of the running malicious processes
  entered,     \* cleanup: steps of main entered so far, in order
  finished,    \* cleanup: steps of main that have returned
  answer,      \* cleanup: the operator's answer at each prompt ("" = not asked)
  filesToRemove,    \* cleanup: the list removeMaliciousFiles found
  existingDirs,     \* cleanup: the list removeMaliciousDirectories found
  infectedPackages, \* cleanup: the list cleanInfectedPackages found
  idx,         \* cleanup: position of the running for-of loop
  removed,     \* cleanup: the counter `removed` of removeMaliciousFiles
  countLine,   \* cleanup: the "Removed r/t files" line, once printed
  oplog,       \* cleanup: every destructive operation attempted, in order
  envLeft,     \* concurrent changes the environment may still make
  findings,    \* detector: the global findings object
  environ,     \* process.env: the entries, in order, as key and value
  npmrc,       \* content of every .npmrc in files, and whether it can be read
  psFaults,    \* the process probes that cannot run on this host
  report,      \* detector: detection-report.json in the tool's own directory
  prior,       \* detector: the findings of the pass before this one
  passes,      \* detector: number of the pass that runs
  links,       \* the symbolic links on the host: the directory each points to
  unreadable   \* the directories readdirSync cannot list (EACCES)

vars == <<tool, pc, files, dirs, manifest, procs, entered, finished, answer,
          filesToRemove, existingDirs, infectedPackages, idx, removed, countLine,
          oplog, envLeft, findings, environ, npmrc, psFaults, report, prior,
          passes, links, unreadable>>

fsVars == <<files, dirs, manifest>>
listVars == <<filesToRemove, existingDirs, infectedPackages>>
detVars == <<environ, npmrc, psFaults, report, prior, passes>>
hostVars == <<links, unreadable>>

----------------------------------------------------------------------------
\* Bounds of the model

\* number of concurrent deletions by the user or the malware in one run
MaxEnvSteps == 1

\* number of detect passes run one after the other on a host
MaxPasses == 2

----------------------------------------------------------------------------
\* Paths (path.join, path.dirname, path.basename)

Join(p, name) == Append(p, name)
Dirname(p) == SubSeq(p, 1, Len(p) - 1)
Basename(p) == p[Len(p)]

HomeDir == <<"home">>
Cwd == <<"cwd">>

CacheDir == Join(HomeDir, ".truffler-cache")
ExtractDir == Join(CacheDir, "extract")
CacheFiles == << Join(CacheDir, "trufflehog"), Join(CacheDir, "trufflehog.exe") >>
NodeModules == Join(Cwd, "node_modules")
LockPath == Join(Cwd, "package-lock.json")

\* the order in which readdirSync lists the entries of a directory
NameOrder == << ".npmrc", "bun_environment.js", "node_modules", "package-lock.json",
                "package.json", "pkgA", "setup_bun.js", "src" >>

\* String.prototype.includes on a path segment, for the marker 'node_modules'
NameIncludesMarker(name) == name = "node_modules"

PathNeverIncludesMarker(p) == FALSE

\* startPath.includes('node_modules')
PathIncludesMarker(p) == \E i \in 1..Len(p) : NameIncludesMarker(p[i])

\* What the operating system does with a path: existsSync, statSync and
\* readdirSync follow symbolic links, and give up (ELOOP) on a path that goes
\* through more than a fixed number of them

\* links followed in one path before ELOOP (40 on Linux)
OsSymlinkLimit == 12

Resolved(ok, path) == [ok |-> ok, path |-> path]

RECURSIVE RealFrom(_, _, _, _)
RealFrom(p, i, cur, hops) ==
  IF i > Len(p) THEN Resolved(TRUE, cur)
  ELSE LET nxt == Append(cur, p[i]) IN
       IF nxt \in DOMAIN links
         THEN IF hops >= OsSymlinkLimit
                THEN Resolved(FALSE, <<>>)
                ELSE RealFrom(p, i + 1, links[nxt], hops + 1)
         ELSE RealFrom(p, i + 1, nxt, hops)

\* the file or directory a path names once its links are followed
Real(p) ==
  IF DOMAIN links = {} THEN Resolved(TRUE, p)
  ELSE CHOOSE r \in { RealFrom(q, 1, <<>>, 0) : q \in { p } } : TRUE

\* fs.statSync(p).isDirectory(), FALSE too when statSync throws
IsDirectory(p, ds) == Real(p).ok /\ Real(p).path \in ds

\* fs.statSync(p) gives a regular file
IsFile(p, fs) == Real(p).ok /\ Real(p).path \in fs

\* fs.readdirSync(p) throws: p is no directory, or cannot be listed
ReaddirThrows(p, ds) == ~IsDirectory(p, ds) \/ Real(p).path \in unreadable

\* fs.existsSync(p)
Exists(p, fs, ds) == IsDirectory(p, ds) \/ IsFile(p, fs)

RECURSIVE ConcatFrom(_, _)
ConcatFrom(ss, i) == IF i > Len(ss) THEN <<>> ELSE ss[i] \o ConcatFrom(ss, i + 1)

\* the sequences of ss, one after the other
Concat(ss) == CHOOSE r \in { ConcatFrom(s, 1) : s \in { ss } } : TRUE

Range(s) == { s[i] : i \in 1..Len(s) }

SelectIdxNever(s, p, i) == 0

RECURSIVE SelectIdx(_, _, _)
\* Array.prototype.find(e => e.path === p): the first index of s at or after i
\* whose element has path p, 0 when none
SelectIdx(s, p, i) ==
  IF i > Len(s) THEN 0
  ELSE IF s[i].path = p THEN i ELSE SelectIdx(s, p, i + 1)

----------------------------------------------------------------------------
\* The tree walker of cleanup.js: every failure is caught

MaxDepthC == 10

RECURSIVE findFilesC(_, _, _, _)
findFilesC(filename, startPath, fs, ds) ==
  IF ~Exists(startPath, fs, ds) THEN <<>>
  ELSE IF ReaddirThrows(startPath, ds) THEN <<>>     \* caught at line 453
  ELSE
    LET visit(name) ==
          LET filepath == Join(startPath, name) IN
          IF IsDirectory(filepath, ds)
            THEN IF name = "node_modules" /\ PathIncludesMarker(startPath)
                   THEN <<>>
                   ELSE IF Len(filepath) < Len(startPath) + MaxDepthC
                          THEN findFilesC(filename, filepath, fs, ds)
                          ELSE <<>>
            ELSE IF IsFile(filepath, fs) /\ name = filename
                   THEN << filepath >>
                   ELSE <<>>
    IN Concat([ i \in 1..Len(NameOrder) |-> visit(NameOrder[i]) ])

----------------------------------------------------------------------------
\* package.json: the text on disk and the value JSON.parse gives

\* a JSON string, as its sequence of words, and a JSON number
Str(words) == [t |-> "str", v |-> words]
Num == [t |-> "num", v |-> <<>>]

ScriptSetupBun == Str(<< "node", "setup_bun.js" >>)
ScriptBunEnv == Str(<< "bun", "run", "bun_environment.js" >>)
ScriptBenign == Str(<< "echo", "ok" >>)

\* a value in a JavaScript condition
Truthy(val) == val.t = "num" \/ val.v # <<>>

\* String.prototype.includes; a number has no such method (TypeError)
HasIncludes(val) == val.t = "str"
Includes(val, word) == \E i \in 1..Len(val.v) : val.v[i] = word

\* Object.keys(obj) and `delete obj[key]`
Keys(obj) == DOMAIN obj
Delete(obj, key) == [k \in DOMAIN obj \ {key} |-> obj[k]]

\* the text of a manifest: its layout and, when it parses, its JSON value
Text(layout, json) == [ok |-> TRUE, fmt |-> layout, json |-> json]
Malformed == [ok |-> FALSE, fmt |-> "hand", json |-> [k \in {} |-> 0]]

ParseNeverThrows(content) == FALSE

\* JSON.parse(content) throws on a malformed text
ParseThrows(content) == ~content.ok
Parse(content) == content.json

\* JSON.stringify(value, null, 2) + '\n'
Stringify(json) == Text("indent2", json)

JsonMalOnly == [name |-> "pkg", version |-> "1.0.0",
                scripts |-> [preinstall |-> ScriptSetupBun]]
JsonMalPlus == [name |-> "pkg", version |-> "1.0.0",
                scripts |-> [preinstall |-> ScriptBunEnv, postinstall |-> ScriptBenign]]
JsonPostOnly == [name |-> "pkg", version |-> "1.0.0",
                 scripts |-> [postinstall |-> ScriptBenign]]
JsonBenignPre == [name |-> "pkg", version |-> "1.0.0",
                  scripts |-> [preinstall |-> ScriptBenign]]
JsonNumPre == [name |-> "pkg", version |-> "1.0.0",
               scripts |-> [preinstall |-> Num]]
JsonNoScripts == [name |-> "pkg", version |-> "1.0.0"]

\* packageJson.scripts && packageJson.scripts.preinstall
HasPreinstall(json) ==
  /\ "scripts" \in DOMAIN json
  /\ "preinstall" \in DOMAIN json.scripts
  /\ Truthy(json.scripts.preinstall)

\* preinstall.includes('setup_bun.js') || preinstall.includes('bun_environment.js')
IsMaliciousScript(val) ==
  Includes(val, "setup_bun.js") \/ Includes(val, "bun_environment.js")

\* packageJson.name
NameOf(json) == IF "name" \in DOMAIN json THEN json.name ELSE "undefined"

----------------------------------------------------------------------------
\* Filesystem operations

IsUnder(q, p) == Len(q) >= Len(p) /\ SubSeq(q, 1, Len(p)) = p

\* the paths left when p (a file, or a directory with all below it) is removed
Without(paths, p) == { q \in paths : ~IsUnder(q, p) }

WithoutManifests(mf, p) == [q \in { r \in DOMAIN mf : ~IsUnder(r, p) } |-> mf[q]]

\* a line of the oplog: one destructive operation of a step on a target, whether
\* the target was there when it ran, whether it succeeded, and the line logged
Op(step, op, target, present, ok, msg) ==
  [step |-> step, op |-> op, target |-> target, present |-> present,
   ok |-> ok, msg |-> msg]

----------------------------------------------------------------------------
\* The operator's answers (confirm)

Answers == { "Y", "no" }

ToLowerCase(a) == IF a = "Y" THEN "y" ELSE a

confirmAnything(a) == TRUE

\* answer.toLowerCase() === 'yes' || answer.toLowerCase() === 'y'
confirm(a) == ToLowerCase(a) = "yes" \/ ToLowerCase(a) = "y"

----------------------------------------------------------------------------
\* main of cleanup.js: the steps, in the order of its awaits

MainStepsGuidanceEarly == << "kill", "files", "dirs", "guidance", "pkgs", "reinstall" >>

MainSteps == << "kill", "files", "dirs", "pkgs", "reinstall", "guidance" >>

\* the first position of a step's function
EntryPc(step) ==
  CASE step = "kill" -> "kill"
    [] step = "files" -> "files_scan"
    [] step = "dirs" -> "dirs_scan"
    [] step = "pkgs" -> "pkgs_scan"
    [] step = "reinstall" -> "reinstall_confirm"
    [] step = "guidance" -> "guidance"

StepIndex(step) == CHOOSE k \in 1..Len(MainSteps) : MainSteps[k] = step

\* a step's function returns: main awaits the next one, or prints the summary
Return(step) ==
  /\ finished' = finished \cup {step}
  /\ IF StepIndex(step) < Len(MainSteps)
       THEN /\ pc' = EntryPc(MainSteps[StepIndex(step) + 1])
            /\ entered' = Append(entered, MainSteps[StepIndex(step) + 1])
       ELSE /\ pc' = "complete"
            /\ entered' = entered

----------------------------------------------------------------------------
\* Step 1: killMaliciousProcesses

\* the names the two pkill (or taskkill) commands match
KillPatterns == << "trufflehog", "bun_environment" >>

\* Each command exits 0 when it signalled a process, and throws otherwise; the
\* throw is caught. No prompt precedes the commands.
KillMaliciousProcesses ==
  /\ tool = "cleanup" /\ pc = "kill"
  /\ \E killed \in SUBSET procs :
       /\ procs' = procs \ killed
       /\ oplog' = oplog \o
            [ i \in 1..Len(KillPatterns) |->
                Op("kill", "kill", << KillPatterns[i] >>, KillPatterns[i] \in procs,
                   KillPatterns[i] \in killed,
                   IF KillPatterns[i] \in killed THEN "Killed" ELSE "none") ]
  /\ Return("kill")
  /\ UNCHANGED <<tool, detVars, hostVars, fsVars, answer, listVars, idx, removed, countLine,
                 envLeft, findings>>

----------------------------------------------------------------------------
\* Step 2: removeMaliciousFiles

\* lines 124-145: the cache files that exist, then the walker's results
DiscoverFiles(fs, ds) ==
  SelectSeq(CacheFiles, LAMBDA f : Exists(f, fs, ds))
    \o findFilesC("bun_environment.js", NodeModules, fs, ds)
    \o findFilesC("setup_bun.js", NodeModules, fs, ds)

FilesScan ==
  /\ tool = "cleanup" /\ pc = "files_scan"
  /\ \E found \in { DiscoverFiles(files, dirs) } :
       /\ filesToRemove' = found
       /\ IF found = <<>>
            THEN Return("files")
            ELSE pc' = "files_confirm" /\ UNCHANGED <<entered, finished>>
  /\ UNCHANGED <<tool, detVars, hostVars, fsVars, procs, answer, existingDirs, infectedPackages,
                 idx, removed, countLine, oplog, envLeft, findings>>

FilesConfirm ==
  /\ tool = "cleanup" /\ pc = "files_confirm"
  /\ \E a \in Answers :
       /\ answer' = [answer EXCEPT !["files"] = a]
       /\ IF confirm(a)
            THEN /\ pc' = "files_del" /\ idx' = 1 /\ removed' = 0
                 /\ UNCHANGED <<entered, finished>>
            ELSE Return("files") /\ UNCHANGED <<idx, removed>>
  /\ UNCHANGED <<tool, detVars, hostVars, fsVars, procs, listVars, countLine, oplog, envLeft,
                 findings>>

\* fs.unlinkSync(f): throws when f is no file (gone, ENOENT) and may throw when
\* it is one (EPERM, EBUSY). TRUE in ok says the call returned.
UnlinkOutcomes(f, fs) == IF f \in fs THEN { TRUE, FALSE } ELSE { FALSE }

AfterUnlinkUncaught(ok) == IF ok THEN "files_del" ELSE "fatal"

\* lines 164-170: the try around unlinkSync; its catch logs and the loop goes on
AfterUnlink(ok) == "files_del"

\* one iteration of the loop of lines 163-171
FilesDelete ==
  /\ tool = "cleanup" /\ pc = "files_del" /\ idx <= Len(filesToRemove)
  /\ LET f == filesToRemove[idx] IN
     \E ok \in UnlinkOutcomes(f, files) :
       /\ files' = IF ok THEN files \ {f} ELSE files
       /\ removed' = IF ok THEN removed + 1 ELSE removed
       /\ oplog' = Append(oplog, Op("files", "unlink", f, f \in files, ok,
                                    IF ok THEN "Removed" ELSE "Failed"))
       /\ pc' = AfterUnlink(ok)
  /\ idx' = idx + 1
  /\ UNCHANGED <<tool, detVars, hostVars, dirs, manifest, procs, entered, finished, answer,
                 listVars, countLine, envLeft, findings>>

CountLineOfAttempts(r, list) == [removed |-> Len(list), total |-> Len(list)]

\* line 173: `Removed ${removed}/${filesToRemove.length} files`
CountLine(r, list) == [removed |-> r, total |-> Len(list)]

\* after the loop
FilesDone ==
  /\ tool = "cleanup" /\ pc = "files_del" /\ idx > Len(filesToRemove)
  /\ countLine' = CountLine(removed, filesToRemove)
  /\ Return("files")
  /\ UNCHANGED <<tool, detVars, hostVars, fsVars, procs, answer, listVars, idx, removed, oplog,
                 envLeft, findings>>

----------------------------------------------------------------------------
\* Step 3: removeMaliciousDirectories

DirsToRemoveNone == <<>>

DirsToRemove == << CacheDir >>

DirsScan ==
  /\ tool = "cleanup" /\ pc = "dirs_scan"
  /\ \E found \in { SelectSeq(DirsToRemove, LAMBDA d : Exists(d, files, dirs)) } :
       /\ existingDirs' = found
       /\ IF found = <<>>
            THEN Return("dirs")
            ELSE pc' = "dirs_confirm" /\ UNCHANGED <<entered, finished>>
  /\ UNCHANGED <<tool, detVars, hostVars, fsVars, procs, answer, filesToRemove, infectedPackages,
                 idx, removed, countLine, oplog, envLeft, findings>>

DirsConfirm ==
  /\ tool = "cleanup" /\ pc = "dirs_confirm"
  /\ \E a \in Answers :
       /\ answer' = [answer EXCEPT !["dirs"] = a]
       /\ IF confirm(a)
            THEN pc' = "dirs_del" /\ idx' = 1 /\ UNCHANGED <<entered, finished>>
            ELSE Return("dirs") /\ UNCHANGED idx
  /\ UNCHANGED <<tool, detVars, hostVars, fsVars, procs, listVars, removed, countLine, oplog,
                 envLeft, findings>>

\* fs.rmSync(d, {recursive, force}): force makes a missing path no error; an
\* existing tree may fail to go (EPERM, EBUSY)
RmOutcomes(d, fs, ds) == IF Exists(d, fs, ds) THEN { TRUE, FALSE } ELSE { TRUE }

\* one iteration of the loop of lines 204-211
DirsDelete ==
  /\ tool = "cleanup" /\ pc = "dirs_del" /\ idx <= Len(existingDirs)
  /\ LET d == existingDirs[idx] IN
     \E ok \in RmOutcomes(d, files, dirs) :
       /\ files' = IF ok THEN Without(files, d) ELSE files
       /\ dirs' = IF ok THEN Without(dirs, d) ELSE dirs
       /\ manifest' = IF ok THEN WithoutManifests(manifest, d) ELSE manifest
       /\ oplog' = Append(oplog, Op("dirs", "rm", d, Exists(d, files, dirs), ok,
                                    IF ok THEN "Removed" ELSE "Failed"))
  /\ idx' = idx + 1
  /\ UNCHANGED <<tool, detVars, hostVars, pc, procs, entered, finished, answer, listVars, removed,
                 countLine, envLeft, findings>>

DirsDone ==
  /\ tool = "cleanup" /\ pc = "dirs_del" /\ idx > Len(existingDirs)
  /\ Return("dirs")
  /\ UNCHANGED <<tool, detVars, hostVars, fsVars, procs, answer, listVars, idx, removed, countLine,
                 oplog, envLeft, findings>>

----------------------------------------------------------------------------
\* Step 4: cleanInfectedPackages

\* an element of infectedPackages: preinstall and maliciousFiles are properties
\* the element may lack
Infected(path, name, hasPre, pre, hasFiles, mfiles) ==
  [path |-> path, name |-> name, hasPreinstall |-> hasPre, preinstall |-> pre,
   hasFiles |-> hasFiles, maliciousFiles |-> mfiles]

\* [setupBun, bunEnv].filter(f => fs.existsSync(f))
PresentIn(packageDir, fs, ds) ==
  SelectSeq(<< Join(packageDir, "setup_bun.js"), Join(packageDir, "bun_environment.js") >>,
            LAMBDA f : Exists(f, fs, ds))

\* the body of the discovery loop, lines 224-260, for one package.json: what
\* infectedPackages is after it
DiscoverOne(acc, packageFile, fs, ds, mf) ==
  IF ~IsFile(packageFile, fs) \/ ParseThrows(mf[Real(packageFile).path]) THEN acc
  ELSE
    LET json == Parse(mf[Real(packageFile).path])
        pre == json.scripts.preinstall
        present == PresentIn(Dirname(packageFile), fs, ds)
        existing == SelectIdx(acc, packageFile, 1)
    IN
    IF HasPreinstall(json) /\ ~HasIncludes(pre) THEN acc        \* TypeError, caught
    ELSE
      LET acc1 == IF HasPreinstall(json) /\ IsMaliciousScript(pre)
                    THEN Append(acc, Infected(packageFile, NameOf(json), TRUE, pre,
                                              FALSE, <<>>))
                    ELSE acc
          found == SelectIdx(acc1, packageFile, 1)
      IN
      IF present = <<>> THEN acc1
      ELSE IF found = 0
        THEN Append(acc1, Infected(packageFile, NameOf(json), FALSE, Str(<<>>),
                                   TRUE, present))
        ELSE [acc1 EXCEPT ![found].hasFiles = TRUE,
                          ![found].maliciousFiles = present]

RECURSIVE DiscoverPackages(_, _, _, _, _)
DiscoverPackages(acc, packageFiles, fs, ds, mf) ==
  IF packageFiles = <<>> THEN acc
  ELSE DiscoverPackages(DiscoverOne(acc, Head(packageFiles), fs, ds, mf),
                        Tail(packageFiles), fs, ds, mf)

PkgsScan ==
  /\ tool = "cleanup" /\ pc = "pkgs_scan"
  /\ \E packageFiles \in { findFilesC("package.json", Cwd, files, dirs) } :
     \E found \in { DiscoverPackages(<<>>, packageFiles, files, dirs, manifest) } :
       /\ infectedPackages' = found
       /\ IF found = <<>>
            THEN Return("pkgs")
            ELSE pc' = "pkgs_confirm" /\ UNCHANGED <<entered, finished>>
  /\ UNCHANGED <<tool, detVars, hostVars, fsVars, procs, answer, filesToRemove, existingDirs,
                 idx, removed, countLine, oplog, envLeft, findings>>

PkgsConfirm ==
  /\ tool = "cleanup" /\ pc = "pkgs_confirm"
  /\ \E a \in Answers :
       /\ answer' = [answer EXCEPT !["pkgs"] = a]
       /\ IF confirm(a)
            THEN pc' = "pkgs_clean" /\ idx' = 1 /\ UNCHANGED <<entered, finished>>
            ELSE Return("pkgs") /\ UNCHANGED idx
  /\ UNCHANGED <<tool, detVars, hostVars, fsVars, procs, listVars, removed, countLine, oplog,
                 envLeft, findings>>

StripScripts(json) == Delete(json, "scripts")

\* lines 296-301: delete the preinstall entry, and the scripts object if that
\* left it empty
StripPreinstall(json) ==
  LET scripts1 == Delete(json.scripts, "preinstall") IN
  IF Keys(scripts1) = {}
    THEN Delete(json, "scripts")
    ELSE [json EXCEPT !.scripts = scripts1]

\* fs.writeFileSync(path, text) may throw (EACCES, EROFS) and then leaves the file
WriteOutcomes(attempted) == IF attempted THEN { TRUE, FALSE } ELSE { TRUE }

FilesToUnlinkNone(pkg, threw) == <<>>

\* what the inner try of lines 311-318 unlinks once the outer try got that far
FilesToUnlink(pkg, threw) ==
  IF threw \/ ~pkg.hasFiles THEN <<>> ELSE pkg.maliciousFiles

AfterCleanUncaught(threw) == IF threw THEN "fatal" ELSE "pkgs_clean"

\* lines 287-323: the try inside the loop; its catch logs and the loop goes on
AfterClean(threw) == "pkgs_clean"

ScriptAtDiscovery(pkg, json) == pkg.preinstall

\* line 294: the preinstall entry of the manifest as it was just read
ScriptAtCleanup(pkg, json) == json.scripts.preinstall

\* one iteration of the loop of lines 286-324
PkgsClean ==
  /\ tool = "cleanup" /\ pc = "pkgs_clean" /\ idx <= Len(infectedPackages)
  /\ LET pkg == infectedPackages[idx]
         gone == pkg.path \notin files
         bad == gone \/ ParseThrows(manifest[pkg.path])
         json == Parse(manifest[pkg.path])
         pre == ScriptAtCleanup(pkg, json)
         typeErr == ~bad /\ HasPreinstall(json) /\ ~HasIncludes(pre)
         strip == ~bad /\ ~typeErr /\ HasPreinstall(json) /\ IsMaliciousScript(pre)
     IN
     \E wok \in WriteOutcomes(strip) :
       LET threw == bad \/ typeErr \/ ~wok
           toUnlink == FilesToUnlink(pkg, threw)
       IN
       \E okSet \in SUBSET { f \in Range(toUnlink) : TRUE \in UnlinkOutcomes(f, files) } :
         /\ manifest' = IF strip /\ wok
                          THEN [manifest EXCEPT ![pkg.path] = Stringify(StripPreinstall(json))]
                          ELSE manifest
         /\ files' = files \ okSet
         /\ oplog' = oplog
              \o << Op("pkgs", "clean", pkg.path, ~gone, ~threw,
                       IF threw THEN "Failed" ELSE "none") >>
              \o (IF strip
                    THEN << Op("pkgs", "write", pkg.path, TRUE, wok,
                               IF wok THEN "Cleaned" ELSE "none") >>
                    ELSE <<>>)
              \o [ i \in 1..Len(toUnlink) |->
                     Op("pkgs", "unlink", toUnlink[i], toUnlink[i] \in files,
                        toUnlink[i] \in okSet,
                        IF toUnlink[i] \in okSet THEN "Removed" ELSE "Failed") ]
         /\ pc' = AfterClean(threw)
  /\ idx' = idx + 1
  /\ UNCHANGED <<tool, detVars, hostVars, dirs, procs, entered, finished, answer, listVars,
                 removed, countLine, envLeft, findings>>

PkgsDone ==
  /\ tool = "cleanup" /\ pc = "pkgs_clean" /\ idx > Len(infectedPackages)
  /\ Return("pkgs")
  /\ UNCHANGED <<tool, detVars, hostVars, fsVars, procs, answer, listVars, idx, removed, countLine,
                 oplog, envLeft, findings>>

----------------------------------------------------------------------------
\* Step 5: reinstallDependencies

ReinstallConfirm ==
  /\ tool = "cleanup" /\ pc = "reinstall_confirm"
  /\ \E a \in Answers :
       /\ answer' = [answer EXCEPT !["reinstall"] = a]
       /\ IF confirm(a)
            THEN pc' = "reinstall_run" /\ UNCHANGED <<entered, finished>>
            ELSE Return("reinstall")
  /\ UNCHANGED <<tool, detVars, hostVars, fsVars, procs, listVars, idx, removed, countLine, oplog,
                 envLeft, findings>>

\* the call of lines 346-363 that throws, if any; the catch of line 364 ends the
\* step. A call that is skipped cannot throw.
ReinstallFailures(fs, ds) ==
  { "none", "npm" }
    \cup (IF Exists(NodeModules, fs, ds) THEN { "rm" } ELSE {})
    \cup (IF Exists(LockPath, fs, ds) THEN { "unlink" } ELSE {})

\* npm install, when it succeeds, leaves a node_modules directory and a lock file
ReinstallRun ==
  /\ tool = "cleanup" /\ pc = "reinstall_run"
  /\ \E fail \in ReinstallFailures(files, dirs) :
       LET hadNm == Exists(NodeModules, files, dirs)
           hadLock == Exists(LockPath, files, dirs)
           rmDone == hadNm /\ fail # "rm"
           unlinkDone == hadLock /\ fail \notin { "rm", "unlink" }
           files1 == IF rmDone THEN Without(files, NodeModules) ELSE files
           files2 == IF unlinkDone THEN files1 \ { LockPath } ELSE files1
           dirs1 == IF rmDone THEN Without(dirs, NodeModules) ELSE dirs
       IN
       /\ files' = IF fail = "none" THEN files2 \cup { LockPath } ELSE files2
       /\ dirs' = IF fail = "none" THEN dirs1 \cup { NodeModules } ELSE dirs1
       /\ manifest' = IF rmDone THEN WithoutManifests(manifest, NodeModules)
                                ELSE manifest
       /\ oplog' = oplog
            \o (IF hadNm
                  THEN << Op("reinstall", "rm", NodeModules, TRUE, rmDone, "none") >>
                  ELSE <<>>)
            \o (IF hadLock /\ fail # "rm"
                  THEN << Op("reinstall", "unlink", LockPath, TRUE, unlinkDone, "none") >>
                  ELSE <<>>)
            \o (IF fail \in { "none", "npm" }
                  THEN << Op("reinstall", "npm", Cwd, TRUE, fail = "none",
                             IF fail = "none" THEN "Reinstalled" ELSE "Failed") >>
                  ELSE <<>>)
  /\ Return("reinstall")
  /\ UNCHANGED <<tool, detVars, hostVars, procs, answer, listVars, idx, removed, countLine, envLeft,
                 findings>>

----------------------------------------------------------------------------
\* Step 6: credentialRotationInstructions

GuidanceUnacknowledged ==
  /\ tool = "cleanup" /\ pc = "guidance"
  /\ Return("guidance")
  /\ UNCHANGED <<tool, detVars, hostVars, fsVars, procs, answer, listVars, idx, removed, countLine,
                 oplog, envLeft, findings>>

\* lines 374-416: the guidance is printed
Guidance ==
  /\ tool = "cleanup" /\ pc = "guidance"
  /\ pc' = "ack"
  /\ UNCHANGED <<tool, detVars, hostVars, fsVars, procs, entered, finished, answer, listVars, idx,
                 removed, countLine, oplog, envLeft, findings>>

\* line 418: the answer is awaited and dropped; main then prints CLEANUP COMPLETE
Acknowledge ==
  /\ tool = "cleanup" /\ pc = "ack"
  /\ \E a \in Answers : answer' = [answer EXCEPT !["ack"] = "given"]
  /\ Return("guidance")
  /\ UNCHANGED <<tool, detVars, hostVars, fsVars, procs, listVars, idx, removed, countLine, oplog,
                 envLeft, findings>>

----------------------------------------------------------------------------
\* main of cleanup.js, lines 463-482: the warning prompt

Warn ==
  /\ tool = "cleanup" /\ pc = "warn"
  /\ \E a \in Answers :
       /\ answer' = [answer EXCEPT !["warn"] = a]
       /\ IF confirm(a)
            THEN /\ pc' = EntryPc(MainSteps[1])
                 /\ entered' = << MainSteps[1] >>
            ELSE /\ pc' = "cancelled"
                 /\ entered' = entered
  /\ UNCHANGED <<tool, detVars, hostVars, fsVars, procs, finished, listVars, idx, removed,
                 countLine, oplog, envLeft, findings>>

----------------------------------------------------------------------------
\* detector.js: the tree walker. readdirSync is outside the try, so its error
\* leaves the call: threw says the call ended in that error. The recursive call
\* is inside the try of the loop, so the loop of the directory above catches it.

MaxDepthD == 10

Walked(threw, results) == [threw |-> threw, results |-> results]

RECURSIVE JoinFrom(_, _)
JoinFrom(ws, i) ==
  IF i > Len(ws) THEN Walked(FALSE, <<>>)
  ELSE IF ws[i].threw THEN JoinFrom(ws, i + 1)     \* caught at line 1264
  ELSE LET rest == JoinFrom(ws, i + 1) IN
       Walked(rest.threw, ws[i].results \o rest.results)

\* what the loop over a directory's entries has pushed when it ends
JoinWalks(ws) == CHOOSE r \in { JoinFrom(w, 1) : w \in { ws } } : TRUE

RECURSIVE findFilesD(_, _, _, _)
findFilesD(filename, startPath, fs, ds) ==
  IF ~Exists(startPath, fs, ds) THEN Walked(FALSE, <<>>)
  ELSE IF ReaddirThrows(startPath, ds) THEN Walked(TRUE, <<>>)
  ELSE
    LET visit(name) ==
          LET filepath == Join(startPath, name) IN
          IF IsDirectory(filepath, ds)
            THEN IF name = "node_modules" /\ PathIncludesMarker(startPath)
                   THEN Walked(FALSE, <<>>)
                   ELSE IF Len(filepath) < Len(startPath) + MaxDepthD
                          THEN findFilesD(filename, filepath, fs, ds)
                          ELSE Walked(FALSE, <<>>)
            ELSE IF IsFile(filepath, fs) /\ name = filename
                   THEN Walked(FALSE, << filepath >>)
                   ELSE Walked(FALSE, <<>>)
    IN JoinWalks([ i \in 1..Len(NameOrder) |-> visit(NameOrder[i]) ])

findNodeModulesFilesNone(filename, fs, ds) == Walked(FALSE, <<>>)

\* findNodeModulesFiles(filename)
findNodeModulesFiles(filename, fs, ds) ==
  IF Exists(NodeModules, fs, ds)
    THEN findFilesD(filename, NodeModules, fs, ds)
    ELSE Walked(FALSE, <<>>)

----------------------------------------------------------------------------
\* detector.js: the scans of main, lines 1362-1366

\* lines 955-963: the findings object when the module is loaded
NoFindings ==
  [maliciousFiles |-> <<>>, maliciousDirectories |-> <<>>, suspiciousPackages |-> <<>>,
   runningProcesses |-> <<>>, stolenCredentials |-> <<>>, severity |-> "none"]

SeverityKept(found, severity) == severity

SeverityOnlyFromNone(found, severity) ==
  IF found # <<>> /\ severity = "none" THEN "critical" ELSE severity

\* lines 1000-1002, 1027-1029, 1131-1133: findings.severity = 'critical' beside
\* every push
SeverityAfterFound(found, severity) ==
  IF found # <<>> THEN "critical" ELSE severity

SeverityEscalated(severity) == "critical"

SeverityLowered(severity) == "high"

\* line 1092: findings.severity === 'critical' ? 'critical' : 'high'
SeverityAfterFilesPresent(severity) ==
  IF severity = "critical" THEN "critical" ELSE "high"

\* an uncaught error reaches the catch of main: process.exit(1)
Fatal == pc' = "det_fatal" /\ UNCHANGED findings

\* lines 987-1003: the files of filesToCheck that exist, or the throw of a walk
FilesFound(fs, ds) ==
  CHOOSE r \in
    { LET filesToCheck == CacheFiles \o w1.results \o w2.results
      IN Walked(w1.threw \/ w2.threw,
                SelectSeq(filesToCheck, LAMBDA f : Exists(f, fs, ds))) :
        w1 \in { findNodeModulesFiles("bun_environment.js", fs, ds) },
        w2 \in { findNodeModulesFiles("setup_bun.js", fs, ds) } } : TRUE

\* lines 997-1003: findings after the loop over filesToCheck
AfterFilesFound(fnd, found) ==
  [fnd EXCEPT !.maliciousFiles = fnd.maliciousFiles \o found,
              !.severity = SeverityAfterFound(found, fnd.severity)]

ScanForMaliciousFiles ==
  /\ tool = "detector" /\ pc = "det_files"
  /\ \E w \in { FilesFound(files, dirs) } :
       IF w.threw THEN Fatal
       ELSE /\ findings' = AfterFilesFound(findings, w.results)
            /\ pc' = "det_dirs"
  /\ UNCHANGED <<tool, detVars, hostVars, fsVars, procs, entered, finished, answer, listVars, idx,
                 removed, countLine, oplog, envLeft>>

DirsToCheck == << CacheDir, ExtractDir >>

ScanForMaliciousDirectoriesRemoving ==
  /\ tool = "detector" /\ pc = "det_dirs"
  /\ LET found == SelectSeq(DirsToCheck, LAMBDA d : Exists(d, files, dirs)) IN
     /\ findings' =
          [findings EXCEPT !.maliciousDirectories = findings.maliciousDirectories \o found,
                           !.severity = SeverityAfterFound(found, findings.severity)]
     /\ files' = { f \in files : \A i \in 1..Len(found) : ~IsUnder(f, found[i]) }
     /\ dirs' = { d \in dirs : \A i \in 1..Len(found) : ~IsUnder(d, found[i]) }
  /\ pc' = "det_pkgs"
  /\ UNCHANGED <<tool, detVars, hostVars, manifest, procs, entered, finished, answer, listVars,
                 idx, removed, countLine, oplog, envLeft>>

\* lines 1024-1030: the directories of dirsToCheck that exist
DirsFound(fs, ds) == SelectSeq(DirsToCheck, LAMBDA d : Exists(d, fs, ds))

\* lines 1024-1030: findings after the loop over dirsToCheck
AfterDirsFound(fnd, found) ==
  [fnd EXCEPT !.maliciousDirectories = fnd.maliciousDirectories \o found,
              !.severity = SeverityAfterFound(found, fnd.severity)]

ScanForMaliciousDirectories ==
  /\ tool = "detector" /\ pc = "det_dirs"
  /\ findings' = AfterDirsFound(findings, DirsFound(files, dirs))
  /\ pc' = "det_pkgs"
  /\ UNCHANGED <<tool, detVars, hostVars, fsVars, procs, entered, finished, answer, listVars, idx,
                 removed, countLine, oplog, envLeft>>

\* an element of findings.suspiciousPackages: script and files are properties
\* the element may lack
Suspicious(path, json, reason, hasScript, script, hasFiles, names) ==
  [path |-> path, name |-> NameOf(json),
   version |-> IF "version" \in DOMAIN json THEN json.version ELSE "undefined",
   reason |-> reason, hasScript |-> hasScript, script |-> script,
   hasFiles |-> hasFiles, files |-> names]

\* lines 1086-1089: the names of the two files that exist in packageDir
PresentNames(packageDir, fs, ds) ==
  SelectSeq(<< "setup_bun.js", "bun_environment.js" >>,
            LAMBDA n : Exists(Join(packageDir, n), fs, ds))

\* the body of the loop of scanPackages, lines 1051-1098, for one package.json:
\* what findings is after it
ScanOne(fnd, packageFile, fs, ds, mf) ==
  IF ~IsFile(packageFile, fs) \/ ParseThrows(mf[Real(packageFile).path]) THEN fnd
  ELSE
    LET json == Parse(mf[Real(packageFile).path])
        pre == json.scripts.preinstall
        present == PresentNames(Dirname(packageFile), fs, ds)
    IN
    IF HasPreinstall(json) /\ ~HasIncludes(pre) THEN fnd        \* TypeError, caught
    ELSE
      LET fnd1 == IF HasPreinstall(json) /\ IsMaliciousScript(pre)
                    THEN [fnd EXCEPT
                            !.suspiciousPackages =
                               Append(fnd.suspiciousPackages,
                                      Suspicious(packageFile, json,
                                                 "Malicious preinstall script detected",
                                                 TRUE, pre, FALSE, <<>>)),
                            !.severity = "critical"]
                    ELSE fnd
          existing == SelectIdx(fnd1.suspiciousPackages, packageFile, 1)
      IN
      IF present = <<>> \/ existing # 0 THEN fnd1
      ELSE [fnd1 EXCEPT
              !.suspiciousPackages =
                 Append(fnd1.suspiciousPackages,
                        Suspicious(packageFile, json,
                                   "Malicious files present in package directory",
                                   FALSE, Str(<<>>), TRUE, present)),
              !.severity = SeverityAfterFilesPresent(fnd1.severity)]

RECURSIVE ScanAll(_, _, _, _, _)
ScanAll(fnd, packageFiles, fs, ds, mf) ==
  IF packageFiles = <<>> THEN fnd
  ELSE ScanAll(ScanOne(fnd, Head(packageFiles), fs, ds, mf),
               Tail(packageFiles), fs, ds, mf)

ScanPackages ==
  /\ tool = "detector" /\ pc = "det_pkgs"
  /\ \E w \in { findFilesD("package.json", Cwd, files, dirs) } :
     IF w.threw THEN Fatal
     ELSE /\ findings' = ScanAll(findings, w.results, files, dirs, manifest)
          /\ pc' = "det_procs"
  /\ UNCHANGED <<tool, detVars, hostVars, fsVars, procs, entered, finished, answer, listVars, idx,
                 removed, countLine, oplog, envLeft>>

\* the names the two ps | grep probes look for (Unix)
ProbePatterns == << "trufflehog", "bun_environment.js" >>

\* the process a probe's pattern matches
ProbedProcess(pattern) ==
  IF pattern = "bun_environment.js" THEN "bun_environment" ELSE pattern

\* lines 1127-1150: a probe that prints nothing exits non-zero and throws, which
\* is caught; so is a probe that cannot run on this host
ProcsFound(ps, broken) ==
  SelectSeq(ProbePatterns, LAMBDA n : n \notin broken /\ ProbedProcess(n) \in ps)

\* lines 1127-1150: findings after the loop over the probes
AfterProcsFound(fnd, found) ==
  [fnd EXCEPT !.runningProcesses = fnd.runningProcesses \o found,
              !.severity = SeverityAfterFound(found, fnd.severity)]

ScanProcesses ==
  /\ tool = "detector" /\ pc = "det_procs"
  /\ \E broken \in { psFaults } :
       findings' = AfterProcsFound(findings, ProcsFound(procs, broken))
  /\ pc' = "det_creds"
  /\ UNCHANGED <<tool, detVars, hostVars, fsVars, procs, entered, finished, answer, listVars, idx,
                 removed, countLine, oplog, envLeft>>

----------------------------------------------------------------------------
\* detector.js: checkCredentialExposure, generateReport

NpmrcPaths == << Join(HomeDir, ".npmrc"), Join(Cwd, ".npmrc") >>
AwsConfigPath == Join(Join(HomeDir, ".aws"), "credentials")
GcpConfigPath == Join(Join(HomeDir, ".config"), "gcloud")

GithubTokenPatterns == << "ghp_", "gho_", "GITHUB_TOKEN" >>

\* String.prototype.includes on a key, a value or a file content, each the
\* sequence of its pieces
ChunkIncludes(str, word) == \E i \in 1..Len(str) : str[i] = word

\* an entry of Object.entries(process.env)
EnvEntry(key, value) == [key |-> key, value |-> value]

\* process.env.NPM_TOKEN
NpmTokenSet(env) ==
  \E i \in 1..Len(env) : env[i].key = << "NPM_TOKEN" >> /\ env[i].value # <<>>

RECURSIVE FirstMatch(_, _, _)
\* lines 1176-1181: the first entry whose key or value includes the pattern, at
\* which the inner loop breaks; 0 when there is none
FirstMatch(env, pattern, i) ==
  IF i > Len(env) THEN 0
  ELSE IF ChunkIncludes(env[i].key, pattern) \/ ChunkIncludes(env[i].value, pattern)
         THEN i
         ELSE FirstMatch(env, pattern, i + 1)

\* the texts pushed to warnings
NpmTokenWarning == << "NPM_TOKEN found in environment variables" >>

GithubWarningWithValue(key, value) ==
  << "GitHub token pattern found in environment: " >> \o value

\* line 1178
GithubWarning(key, value) == << "GitHub token pattern found in environment: " >> \o key

NpmrcWarning(npmrcPath) == << "npm credentials found in: " >> \o npmrcPath
AwsWarning(awsConfigPath) == << "AWS credentials file exists: " >> \o awsConfigPath
GcpWarning(gcpConfigPath) == << "GCP credentials directory exists: " >> \o gcpConfigPath

\* lines 1170-1182
EnvWarnings(env) ==
  (IF NpmTokenSet(env) THEN << NpmTokenWarning >> ELSE <<>>)
  \o Concat([ k \in 1..Len(GithubTokenPatterns) |->
                LET i == FirstMatch(env, GithubTokenPatterns[k], 1) IN
                IF i = 0 THEN <<>> ELSE << GithubWarning(env[i].key, env[i].value) >> ])

\* line 1193: readFileSync of an .npmrc that exists and cannot be read throws, and
\* nothing in checkCredentialExposure catches it
NpmrcThrows(fs, ds, ct) ==
  \E k \in 1..Len(NpmrcPaths) :
    Exists(NpmrcPaths[k], fs, ds) /\ ~ct[NpmrcPaths[k]].readable

\* lines 1191-1198
NpmrcWarnings(fs, ds, ct) ==
  Concat([ k \in 1..Len(NpmrcPaths) |->
             LET npmrcPath == NpmrcPaths[k] IN
             IF /\ Exists(npmrcPath, fs, ds)
                /\ \/ ChunkIncludes(ct[npmrcPath].text, "authToken")
                   \/ ChunkIncludes(ct[npmrcPath].text, "_auth")
               THEN << NpmrcWarning(npmrcPath) >>
               ELSE <<>> ])

\* lines 1201-1210
CloudWarnings(fs, ds) ==
  (IF Exists(AwsConfigPath, fs, ds) THEN << AwsWarning(AwsConfigPath) >> ELSE <<>>)
  \o (IF Exists(GcpConfigPath, fs, ds) THEN << GcpWarning(GcpConfigPath) >> ELSE <<>>)

Warnings(env, fs, ds, ct) ==
  EnvWarnings(env) \o NpmrcWarnings(fs, ds, ct) \o CloudWarnings(fs, ds)

CredsEscalateAlways(fnd) == TRUE

\* line 1216: findings.maliciousFiles.length > 0
CredsEscalate(fnd) == Len(fnd.maliciousFiles) > 0

\* lines 1212-1219: findings after the warnings are collected
AfterWarnings(fnd, warnings) ==
  IF warnings = <<>> THEN fnd
  ELSE [fnd EXCEPT !.stolenCredentials = warnings,
                   !.severity = IF CredsEscalate(fnd) THEN "critical"
                                ELSE fnd.severity]

\* checkCredentialExposure, and checkForExfiltrationRepos, which only prints
CheckCredentialExposure ==
  /\ tool = "detector" /\ pc = "det_creds"
  /\ IF NpmrcThrows(files, dirs, npmrc) THEN Fatal
     ELSE \E warnings \in { Warnings(environ, files, dirs, npmrc) } :
            /\ findings' = AfterWarnings(findings, warnings)
            /\ pc' = "det_report"
  /\ UNCHANGED <<tool, detVars, hostVars, fsVars, procs, entered, finished, answer, listVars, idx,
                 removed, countLine, oplog, envLeft>>

\* fs.writeFileSync(reportPath, ...) may throw (EACCES, EROFS)
ReportWriteOutcomes == { TRUE, FALSE }

\* generateReport: the report is written beside the tool, path.join(__dirname, ...)
GenerateReport ==
  /\ tool = "detector" /\ pc = "det_report"
  /\ \E ok \in ReportWriteOutcomes :
       IF ok
         THEN /\ report' = << [severity |-> findings.severity, findings |-> findings] >>
              /\ pc' = "det_done"
         ELSE /\ report' = report
              /\ pc' = "det_fatal"
  /\ UNCHANGED <<tool, hostVars, fsVars, procs, entered, finished, answer, listVars, idx,
                 removed, countLine, oplog, envLeft, findings, environ, npmrc,
                 psFaults, prior, passes>>

\* the detector is started again: a new process, whose module scope starts over
Rerun ==
  /\ tool = "detector" /\ pc = "det_done" /\ passes < MaxPasses
  /\ prior' = findings
  /\ findings' = NoFindings
  /\ passes' = passes + 1
  /\ pc' = "det_files"
  /\ UNCHANGED <<tool, hostVars, fsVars, procs, entered, finished, answer, listVars, idx,
                 removed, countLine, oplog, envLeft, environ, npmrc, psFaults,
                 report>>

----------------------------------------------------------------------------
\* The environment: the user or the malware removes a target a step has listed,
\* before the operator approves the step

Listed ==
  CASE pc = "files_confirm" -> Range(filesToRemove)
    [] pc = "dirs_confirm" -> Range(existingDirs)
    [] pc = "pkgs_confirm" ->
         UNION { {infectedPackages[i].path} \cup Range(infectedPackages[i].maliciousFiles) :
                 i \in 1..Len(infectedPackages) }
    [] OTHER -> {}

EnvRemove ==
  /\ tool = "cleanup" /\ envLeft > 0
  /\ \E p \in Listed :
       /\ Exists(p, files, dirs)
       /\ files' = Without(files, p)
       /\ dirs' = Without(dirs, p)
       /\ manifest' = WithoutManifests(manifest, p)
  /\ envLeft' = envLeft - 1
  /\ UNCHANGED <<tool, detVars, hostVars, pc, procs, entered, finished, answer, listVars, idx,
                 removed, countLine, oplog, findings>>

----------------------------------------------------------------------------
\* The hosts a tool is started on

RootManifest == Join(Cwd, "package.json")
RootSetupBun == Join(Cwd, "setup_bun.js")
PkgADir == Join(NodeModules, "pkgA")
PkgAManifest == Join(PkgADir, "package.json")

\* the script an edit puts in place of a preinstall entry
ScriptEdited == Str(<< "node", "build.js" >>)

\* the edits of a manifest: a new version; a harmless preinstall entry in place
\* of the one there
Edits(json) ==
  { [json EXCEPT !.version = "1.0.1"] }
    \cup (IF "scripts" \in DOMAIN json /\ "preinstall" \in DOMAIN json.scripts
           THEN { [json EXCEPT !.scripts.preinstall = ScriptEdited] }
           ELSE {})

\* the user edits the project's own manifest, which cleanInfectedPackages has
\* listed, while its prompt waits
EnvEdit ==
  /\ tool = "cleanup" /\ envLeft > 0 /\ pc = "pkgs_confirm"
  /\ \E i \in 1..Len(infectedPackages) :
       LET p == infectedPackages[i].path IN
       /\ p = RootManifest
       /\ p \in files /\ p \in DOMAIN manifest /\ ~ParseThrows(manifest[p])
       /\ \E edited \in Edits(Parse(manifest[p])) :
            manifest' = [manifest EXCEPT ![p] = Text("hand", edited)]
  /\ envLeft' = envLeft - 1
  /\ UNCHANGED <<tool, detVars, hostVars, pc, files, dirs, procs, entered, finished, answer,
                 listVars, idx, removed, countLine, oplog, findings>>

HomeStates ==
  { [files |-> {}, dirs |-> {}],
    [files |-> { CacheFiles[1] }, dirs |-> { CacheDir, ExtractDir }] }

\* the project's own manifest and what lies beside it
RootStates ==
  { [text |-> Text("hand", JsonMalPlus), extra |-> { RootSetupBun }],
    [text |-> Text("hand", JsonPostOnly), extra |-> {}] }

\* a project manifest the scans cannot use: its preinstall entry is a number, or
\* its text does not parse
OddRootStates ==
  { [text |-> Text("hand", JsonNumPre), extra |-> { RootSetupBun }],
    [text |-> Malformed, extra |-> { RootSetupBun }] }

PkgAFiles(text, extra) ==
  [files |-> { PkgAManifest, LockPath } \cup extra,
   dirs |-> { NodeModules, PkgADir },
   manifest |-> [p \in { PkgAManifest } |-> text]]

\* the project without node_modules, or with node_modules/pkgA and a lock file
DepStates ==
  { [files |-> {}, dirs |-> {}, manifest |-> [p \in {} |-> Malformed]],
    PkgAFiles(Text("hand", JsonMalOnly),
              { Join(PkgADir, "setup_bun.js"), Join(PkgADir, "bun_environment.js") }),
    PkgAFiles(Text("hand", JsonBenignPre), { Join(PkgADir, "setup_bun.js") }),
    PkgAFiles(Text("hand", JsonNoScripts), {}) }

ProcStates == { {}, { "trufflehog" } }

HostOf(home, root, dep) ==
  [files |-> home.files \cup { RootManifest } \cup root.extra \cup dep.files,
   dirs |-> { HomeDir, Cwd } \cup home.dirs \cup dep.dirs,
   manifest |-> [p \in { RootManifest } \cup DOMAIN dep.manifest |->
                   IF p = RootManifest THEN root.text ELSE dep.manifest[p]]]

NoHome == [files |-> {}, dirs |-> {}]
NoDeps == [files |-> {}, dirs |-> {}, manifest |-> [p \in {} |-> Malformed]]

\* a package nested in pkgA's own node_modules
NestedDir == Join(Join(PkgADir, "node_modules"), "pkgA")

NestedDeps ==
  [files |-> { PkgAManifest, Join(PkgADir, "bun_environment.js"),
               Join(NestedDir, "package.json"), Join(NestedDir, "setup_bun.js") },
   dirs |-> { NodeModules, PkgADir, Join(PkgADir, "node_modules"), NestedDir },
   manifest |-> [p \in { PkgAManifest, Join(NestedDir, "package.json") } |->
                   IF p = PkgAManifest THEN Text("hand", JsonNoScripts)
                   ELSE Text("hand", JsonMalOnly)]]

\* a dropped file beside a clean project manifest; a dependency whose manifest
\* does not parse in an infected project; an infected nested dependency
ExtraHosts ==
  { HostOf(NoHome, [text |-> Text("hand", JsonPostOnly), extra |-> { RootSetupBun }],
           NoDeps),
    HostOf(NoHome, [text |-> Text("hand", JsonMalPlus), extra |-> { RootSetupBun }],
           PkgAFiles(Malformed, { Join(PkgADir, "setup_bun.js") })),
    HostOf(NoHome, [text |-> Text("hand", JsonPostOnly), extra |-> {}], NestedDeps) }

\* the hosts with such a manifest: nothing else on them, or an infected cache
\* and an infected dependency
OddHosts ==
  { HostOf(NoHome, root, NoDeps) : root \in OddRootStates }
    \cup { HostOf([files |-> { CacheFiles[1] }, dirs |-> { CacheDir, ExtractDir }], root,
                   PkgAFiles(Text("hand", JsonMalOnly),
                             { Join(PkgADir, "setup_bun.js"),
                               Join(PkgADir, "bun_environment.js") })) :
             root \in OddRootStates }

Hosts ==
  { HostOf(home, root, dep) :
      home \in HomeStates, root \in RootStates, dep \in DepStates }
    \cup OddHosts \cup ExtraHosts

\* a host with symbolic links and directories that cannot be listed
WithFaults(host, lnk, unr) ==
  [files |-> host.files, dirs |-> host.dirs, manifest |-> host.manifest,
   links |-> lnk, unreadable |-> unr]

RECURSIVE Nested(_, _, _)
\* the directory n levels of `name` below dir
Nested(dir, name, n) == IF n = 0 THEN dir ELSE Nested(Join(dir, name), name, n - 1)

\* the depth of the deepest directory of DeepHost below the project
DeepLevels == 12

\* a clean project whose sources nest DeepLevels deep, with an infected
\* manifest in the innermost directory
DeepHost ==
  LET base == HostOf(NoHome, [text |-> Text("hand", JsonPostOnly), extra |-> {}], NoDeps)
      inner == Join(Nested(Cwd, "src", DeepLevels), "package.json")
  IN [files |-> base.files \cup { inner },
      dirs |-> base.dirs \cup { Nested(Cwd, "src", n) : n \in 1..DeepLevels },
      manifest |-> [p \in DOMAIN base.manifest \cup { inner } |->
                      IF p = inner THEN Text("hand", JsonMalOnly) ELSE base.manifest[p]]]

\* a clean project where src/src is a symbolic link to src itself
CycleHost ==
  LET base == HostOf(NoHome, [text |-> Text("hand", JsonPostOnly), extra |-> {}], NoDeps)
      inner == Join(Join(Cwd, "src"), "package.json")
  IN [files |-> base.files \cup { inner },
      dirs |-> base.dirs \cup { Join(Cwd, "src") },
      manifest |-> [p \in DOMAIN base.manifest \cup { inner } |->
                      IF p = inner THEN Text("hand", JsonNoScripts) ELSE base.manifest[p]]]

CycleLinks == [p \in { Join(Join(Cwd, "src"), "src") } |-> Join(Cwd, "src")]

\* an infected dependency pkgA and, after it in the listing, an infected
\* dependency src
SiblingHost ==
  LET base == HostOf(NoHome, [text |-> Text("hand", JsonPostOnly), extra |-> {}],
                     PkgAFiles(Text("hand", JsonMalOnly), {}))
      sibling == Join(NodeModules, "src")
      inner == Join(sibling, "package.json")
  IN [files |-> base.files \cup { inner, Join(sibling, "setup_bun.js") },
      dirs |-> base.dirs \cup { sibling },
      manifest |-> [p \in DOMAIN base.manifest \cup { inner } |->
                      IF p = inner THEN Text("hand", JsonMalOnly) ELSE base.manifest[p]]]

\* deep nesting; a link cycle; the project directory, node_modules or one
\* dependency that cannot be listed
FaultyHosts ==
  { WithFaults(DeepHost, <<>>, {}),
    WithFaults(CycleHost, CycleLinks, {}),
    WithFaults(SiblingHost, <<>>, { Cwd }),
    WithFaults(SiblingHost, <<>>, { NodeModules }),
    WithFaults(SiblingHost, <<>>, { PkgADir }) }

AllHosts == { WithFaults(host, <<>>, {}) : host \in Hosts } \cup FaultyHosts

Npmrc(readable, text) == [readable |-> readable, text |-> text]

NoCreds == [environ |-> <<>>, files |-> {}, dirs |-> {}, content |-> [p \in {} |-> Npmrc(TRUE, <<>>)]]

\* the credentials on the host: in the environment, in .npmrc files, for the clouds
CredStates ==
  { NoCreds,
    [environ |-> << EnvEntry(<< "NPM_TOKEN" >>, << "npm_", "SECRET0" >>),
                    EnvEntry(<< "GITHUB_TOKEN" >>, << "ghp_", "SECRET1" >>) >>,
     files |-> { NpmrcPaths[1], AwsConfigPath },
     dirs |-> { Join(HomeDir, ".aws") },
     content |-> [p \in { NpmrcPaths[1] } |->
                    Npmrc(TRUE, << "//registry/:_", "authToken", "=", "SECRET2" >>)]],
    [environ |-> << EnvEntry(<< "MY_VAR" >>, << "gho_", "SECRET3" >>) >>,
     files |-> { NpmrcPaths[2] },
     dirs |-> { Join(HomeDir, ".config"), GcpConfigPath },
     content |-> [p \in { NpmrcPaths[2] } |-> Npmrc(TRUE, << "registry=", "SECRET4" >>)]],
    [environ |-> <<>>,
     files |-> { NpmrcPaths[1] },
     dirs |-> {},
     content |-> [p \in { NpmrcPaths[1] } |-> Npmrc(FALSE, << "_auth", "SECRET5" >>)]] }

PsFaultStates == SUBSET { "trufflehog", "bun_environment.js" }

\* the process tables the cleanup meets: the miner runs from its cache directory
ProcsBeside(host) == IF CacheDir \in host.dirs THEN { { "trufflehog" } } ELSE { {} }

Prompts == { "warn", "files", "dirs", "pkgs", "reinstall", "ack" }

Init ==
  /\ tool \in { "cleanup", "detector" }
  /\ pc = IF tool = "cleanup" THEN "warn" ELSE "det_files"
  /\ \E host \in AllHosts, cred \in IF tool = "cleanup" THEN { NoCreds } ELSE CredStates :
       /\ procs \in IF tool = "cleanup" THEN ProcsBeside(host) ELSE ProcStates
       /\ links = host.links
       /\ unreadable = host.unreadable
       /\ files = host.files \cup cred.files
       /\ dirs = host.dirs \cup cred.dirs
       /\ manifest = host.manifest
       /\ environ = cred.environ
       /\ npmrc = cred.content
  /\ psFaults \in IF tool = "cleanup" THEN { {} } ELSE PsFaultStates
  /\ report = <<>>
  /\ prior = NoFindings
  /\ passes = 1
  /\ entered = <<>>
  /\ finished = {}
  /\ answer = [p \in Prompts |-> ""]
  /\ filesToRemove = <<>>
  /\ existingDirs = <<>>
  /\ infectedPackages = <<>>
  /\ idx = 0
  /\ removed = 0
  /\ countLine = [removed |-> 0, total |-> 0]
  /\ oplog = <<>>
  /\ envLeft = IF tool = "cleanup" THEN MaxEnvSteps ELSE 0
  /\ findings = NoFindings

\* a step of cleanup.js
CleanupStep ==
  \/ Warn
  \/ KillMaliciousProcesses
  \/ FilesScan \/ FilesConfirm \/ FilesDelete \/ FilesDone
  \/ DirsScan \/ DirsConfirm \/ DirsDelete \/ DirsDone
  \/ PkgsScan \/ PkgsConfirm \/ PkgsClean \/ PkgsDone
  \/ ReinstallConfirm \/ ReinstallRun
  \/ Guidance \/ Acknowledge

\* lines 1363-1367: the scans of main, in the order main calls them
ScanOrder == << "files", "directories", "packages", "processes", "credentials" >>

\* one scan of main, as what it makes of findings; found holds what each scan
\* meets on the host
ApplyScan(name, fnd, found) ==
  CASE name = "files" -> AfterFilesFound(fnd, found.files)
    [] name = "directories" -> AfterDirsFound(fnd, found.directories)
    [] name = "packages" -> ScanAll(fnd, found.packages, files, dirs, manifest)
    [] name = "processes" -> AfterProcsFound(fnd, found.processes)
    [] name = "credentials" -> AfterWarnings(fnd, found.credentials)

RECURSIVE RunScans(_, _, _, _)
\* the scans of order from the i-th on, one after the other
RunScans(order, i, fnd, found) ==
  IF i > Len(order) THEN fnd
  ELSE RunScans(order, i + 1, ApplyScan(order[i], fnd, found), found)

\* a step of detector.js
DetectorStep ==
  \/ ScanForMaliciousFiles \/ ScanForMaliciousDirectories
  \/ ScanPackages \/ ScanProcesses
  \/ CheckCredentialExposure \/ GenerateReport \/ Rerun

Next == CleanupStep \/ DetectorStep \/ EnvRemove \/ EnvEdit

Spec == Init /\ [][Next]_vars

\* The tool is one thread of awaits: a step that can run does run, and a prompt
\* that is shown is answered. The environment owes nothing.
LiveSpec == Spec /\ WF_vars(CleanupStep) /\ WF_vars(DetectorStep)

----------------------------------------------------------------------------
\* Properties of the remediation sequencer

\* the order the steps are documented to run in
DocumentedOrder == << "kill", "files", "dirs", "pkgs", "reinstall", "guidance" >>

OrderIndex(step) == CHOOSE k \in 1..Len(DocumentedOrder) : DocumentedOrder[k] = step

\* the step a position of cleanup.js belongs to
StepOfPc ==
  CASE pc = "kill" -> "kill"
    [] pc \in { "files_scan", "files_confirm", "files_del" } -> "files"
    [] pc \in { "dirs_scan", "dirs_confirm", "dirs_del" } -> "dirs"
    [] pc \in { "pkgs_scan", "pkgs_confirm", "pkgs_clean" } -> "pkgs"
    [] pc \in { "reinstall_confirm", "reinstall_run" } -> "reinstall"
    [] pc \in { "guidance", "ack" } -> "guidance"
    [] OTHER -> "none"

\* an affirmative answer: yes or y, in any case
Affirmative == { "yes", "y", "Yes", "Y", "YES" }

OpsOf(step) == { i \in 1..Len(oplog) : oplog[i].step = step }

\* C1: the steps of a remediate run are entered in the order terminate-processes,
\* delete-files, delete-directories, clean-packages, reinstall-dependencies,
\* credential-rotation guidance; a step is entered only when all earlier steps
\* have finished, the operations happen in that order, and the guidance is shown
\* only after every destructive step has finished.
C1_StepsInFixedOrder ==
  /\ Len(entered) <= Len(DocumentedOrder)
  /\ \A k \in 1..Len(entered) :
       /\ entered[k] = DocumentedOrder[k]
       /\ \A j \in 1..(k - 1) : DocumentedOrder[j] \in finished
  /\ StepOfPc # "none" =>
       /\ entered # <<>>
       /\ StepOfPc = entered[Len(entered)]
       /\ StepOfPc \notin finished
  /\ \A i, j \in 1..Len(oplog) :
       i < j => OrderIndex(oplog[i].step) <= OrderIndex(oplog[j].step)
  /\ pc \in { "guidance", "ack", "complete" } =>
       { "kill", "files", "dirs", "pkgs", "reinstall" } \subseteq finished

\* a run that went through all six steps and deleted in at least two of them
C1_Witness ==
  /\ pc = "complete"
  /\ entered = DocumentedOrder
  /\ \E i \in OpsOf("files") : oplog[i].ok
  /\ \E i \in OpsOf("pkgs") : oplog[i].ok
  /\ \E i \in OpsOf("reinstall") : oplog[i].ok

\* C2: in the remediate pass every destructive operation that is performed
\* belongs to a step whose own confirmation prompt the operator answered
\* affirmatively (steps 1 to 5).
C2_EveryDestructiveStepConfirmed ==
  \A i \in 1..Len(oplog) :
    oplog[i].ok =>
      /\ oplog[i].step \in DOMAIN answer
      /\ answer[oplog[i].step] \in Affirmative

ConfirmPc(step) ==
  CASE step = "files" -> "files_confirm"
    [] step = "dirs" -> "dirs_confirm"
    [] step = "pkgs" -> "pkgs_confirm"
    [] step = "reinstall" -> "reinstall_confirm"

GatedSteps == { "files", "dirs", "pkgs", "reinstall" }

\* the operator answers the prompt of step s, and not affirmatively
Declines(s) ==
  /\ pc = ConfirmPc(s)
  /\ answer'[s] # answer[s]
  /\ answer'[s] \notin Affirmative

\* C3: declining the confirmation of the file, directory, package or reinstall
\* step leaves every file, directory, manifest and process as it was, the step
\* performs no operation at all, and the next step of the sequence is entered.
C3_DeclineSkipsOnlyThatStep ==
  /\ [](\A s \in GatedSteps :
          (answer[s] # "" /\ answer[s] \notin Affirmative) => OpsOf(s) = {})
  /\ [][\A s \in GatedSteps :
          Declines(s) =>
            /\ UNCHANGED <<files, dirs, manifest, procs, oplog>>
            /\ entered' = Append(entered, DocumentedOrder[OrderIndex(s) + 1])
            /\ pc' = EntryPc(DocumentedOrder[OrderIndex(s) + 1])]_vars

\* files were listed and the operator declined: they are all still there, and
\* the directory step was entered
C3_Witness ==
  /\ answer["files"] = "no"
  /\ filesToRemove # <<>>
  /\ \A i \in 1..Len(filesToRemove) : filesToRemove[i] \in files
  /\ "dirs" \in Range(entered)
  /\ pc = "complete"

FailedOps(step) == { i \in OpsOf(step) : ~oplog[i].ok }

\* C4: no failure inside a step ends the run: the run never reaches the fatal
\* exit, a step in which an operation failed is followed by the next step once it
\* has returned, and a run that is reported complete has entered all six steps.
C4_FailureNeverAborts ==
  /\ pc # "fatal"
  /\ \A k \in 1..(Len(DocumentedOrder) - 1) :
       (FailedOps(DocumentedOrder[k]) # {} /\ DocumentedOrder[k] \in finished)
         => DocumentedOrder[k + 1] \in Range(entered)
  /\ pc = "complete" => entered = DocumentedOrder

\* a complete run in which a kill, an unlink, a directory removal, a package and
\* the reinstall all failed
C4_Witness ==
  /\ pc = "complete"
  /\ \A s \in { "kill", "files", "dirs", "pkgs", "reinstall" } : FailedOps(s) # {}

\* C5: once the operator has passed the warning prompt, the credential-rotation
\* guidance step is eventually entered whatever was approved, declined or failed
\* before, and the run is reported complete only after the operator has answered
\* the acknowledgment prompt.
C5_GuidanceAlwaysReached ==
  /\ (answer["warn"] \in Affirmative) ~> ("guidance" \in Range(entered))
  /\ [](pc = "complete" => answer["ack"] # "")

\* the guidance is on screen after a run of declines and failures
C5_Witness ==
  /\ pc = "ack"
  /\ answer["files"] = "no"
  /\ FailedOps("pkgs") # {}
  /\ FailedOps("reinstall") # {}

SuccessfulOps(step) == { i \in OpsOf(step) : oplog[i].ok }

\* C6: when the delete-files step was approved and has returned, every listed
\* file was the target of exactly one unlink, a failed one included; the count
\* line shows total = the number of listed files and removed = the number of
\* unlinks that succeeded, so 0 <= removed <= total; and a file whose unlink
\* succeeded is gone.
C6_EveryFileAttemptedOnce ==
  (answer["files"] \in Affirmative /\ "files" \in finished) =>
     /\ \A k \in 1..Len(filesToRemove) :
          Cardinality({ i \in OpsOf("files") : oplog[i].target = filesToRemove[k] }) = 1
     /\ Cardinality(OpsOf("files")) = Len(filesToRemove)
     /\ countLine.total = Len(filesToRemove)
     /\ countLine.removed = Cardinality(SuccessfulOps("files"))
     /\ 0 <= countLine.removed /\ countLine.removed <= countLine.total
     /\ \A i \in SuccessfulOps("files") : oplog[i].target \notin files

\* three files listed; the first unlink failed and the later ones succeeded
C6_Witness ==
  /\ "files" \in finished
  /\ Len(filesToRemove) = 3
  /\ countLine = [removed |-> 2, total |-> 3]
  /\ \E i \in FailedOps("files") : oplog[i].target = filesToRemove[1]

CleanOps == { i \in OpsOf("pkgs") : oplog[i].op = "clean" }

\* C7: when the clean-packages step was approved and is over, every listed
\* package was attempted exactly once, whatever happened to the packages before
\* it in the list; while the loop runs, the packages before its position were.
C7_EveryPackageAttempted ==
  /\ (answer["pkgs"] \in Affirmative /\ pc \notin { "pkgs_confirm", "pkgs_clean" }) =>
       /\ Cardinality(CleanOps) = Len(infectedPackages)
       /\ \A k \in 1..Len(infectedPackages) :
            Cardinality({ i \in CleanOps : oplog[i].target = infectedPackages[k].path }) = 1
  /\ pc = "pkgs_clean" => Cardinality(CleanOps) = idx - 1

\* two packages listed; the first one failed and the second was cleaned
C7_Witness ==
  /\ "pkgs" \in finished
  /\ Len(infectedPackages) = 2
  /\ \E i, j \in CleanOps :
       /\ i < j
       /\ oplog[i].target = infectedPackages[1].path /\ ~oplog[i].ok
       /\ oplog[j].target = infectedPackages[2].path /\ oplog[j].ok
       /\ \E w \in OpsOf("pkgs") :
            oplog[w].op = "write" /\ oplog[w].target = oplog[j].target /\ oplog[w].ok

\* C8: a file, directory or package-local file that was listed by a step and is
\* gone when the step's deletion runs is not logged as a failed removal, and a
\* vanished listed file is not missing from the count of removed files.
C8_VanishedTargetIsNoFailure ==
  /\ \A i \in 1..Len(oplog) :
       (oplog[i].step \in { "files", "dirs", "pkgs" }
          /\ oplog[i].op \in { "unlink", "rm" }
          /\ ~oplog[i].present)
         => oplog[i].msg # "Failed"
  /\ (answer["files"] \in Affirmative /\ "files" \in finished
        /\ \A i \in OpsOf("files") : ~oplog[i].present \/ oplog[i].ok)
       => countLine.removed = countLine.total

\* the malicious preinstall entries a manifest value has
MaliciousPreinstall(json) ==
  /\ "scripts" \in DOMAIN json
  /\ "preinstall" \in DOMAIN json.scripts
  /\ json.scripts.preinstall.t = "str"
  /\ \E i \in 1..Len(json.scripts.preinstall.v) :
       json.scripts.preinstall.v[i] \in { "setup_bun.js", "bun_environment.js" }

\* new is old without its preinstall entry, and without its scripts block iff
\* that entry was the block's only one
OnlyPreinstallRemoved(old, new) ==
  /\ DOMAIN new = DOMAIN old \ (IF DOMAIN old.scripts = { "preinstall" }
                                  THEN { "scripts" } ELSE {})
  /\ \A k \in DOMAIN new \ { "scripts" } : new[k] = old[k]
  /\ "scripts" \in DOMAIN new =>
       /\ DOMAIN new.scripts = DOMAIN old.scripts \ { "preinstall" }
       /\ \A k \in DOMAIN new.scripts : new.scripts[k] = old.scripts[k]

\* C9: whenever a step changes the text of a manifest that stays on disk, the old
\* text parsed and had a preinstall entry containing setup_bun.js or
\* bun_environment.js, the new text parses, and its value is the old one with
\* only that entry removed: every other script and every other top-level field
\* keeps its value, and the scripts block is gone iff the entry was its only one.
\* So a manifest whose preinstall is absent or benign is never rewritten.
\* (A step of the tool leaves envLeft as it is.)
C9_OnlyMaliciousPreinstallRemoved ==
  [][\A p \in DOMAIN manifest \cap DOMAIN manifest' :
       (envLeft' = envLeft /\ manifest'[p] # manifest[p]) =>
         /\ manifest[p].ok /\ manifest'[p].ok
         /\ MaliciousPreinstall(manifest[p].json)
         /\ OnlyPreinstallRemoved(manifest[p].json, manifest'[p].json)]_vars

\* the root manifest was rewritten and kept its postinstall script, name and
\* version
C9_Witness ==
  /\ RootManifest \in DOMAIN manifest
  /\ manifest[RootManifest] =
       Text("indent2", [name |-> "pkg", version |-> "1.0.0",
                        scripts |-> [postinstall |-> ScriptBenign]])
  /\ \E i \in OpsOf("pkgs") :
       oplog[i].op = "write" /\ oplog[i].target = RootManifest /\ oplog[i].ok

\* C10: within one scan pass no two InfectedPackage entries have the same
\* manifest path, in the detector's findings and in the cleanup's list alike.
C10_OneEntryPerManifest ==
  /\ \A i, j \in 1..Len(findings.suspiciousPackages) :
       findings.suspiciousPackages[i].path = findings.suspiciousPackages[j].path => i = j
  /\ \A i, j \in 1..Len(infectedPackages) :
       infectedPackages[i].path = infectedPackages[j].path => i = j

\* the detector has scanned a manifest with a malicious preinstall script and
\* setup_bun.js beside it, and holds one entry for it
C10_Witness ==
  /\ tool = "detector" /\ pc = "det_procs"
  /\ manifest[RootManifest].ok
  /\ MaliciousPreinstall(manifest[RootManifest].json)
  /\ RootSetupBun \in files
  /\ Cardinality({ i \in 1..Len(findings.suspiciousPackages) :
                     findings.suspiciousPackages[i].path = RootManifest }) = 1

----------------------------------------------------------------------------
\* The detect pass

\* positions of the detector after scanPackages has returned
AfterScanPackages == { "det_procs", "det_creds", "det_report", "det_done" }

SuspiciousAt(fnd) == 1..Len(fnd.suspiciousPackages)

\* C11: after scanPackages, a finding made by the script check for a manifest
\* beside which setup_bun.js or bun_environment.js lies also records those files:
\* the files-present discovery is merged into it.
C11_BothConditionsMerged ==
  (tool = "detector" /\ pc \in AfterScanPackages) =>
    \A i \in SuspiciousAt(findings) :
      LET f == findings.suspiciousPackages[i]
          present == PresentNames(Dirname(f.path), files, dirs)
      IN (f.hasScript /\ present # <<>>) => (f.hasFiles /\ f.files = present)

\* the manifest at p is on disk and its text is valid JSON
WellFormed(p) == p \in files /\ manifest[p].ok

\* C12: the package scans of both tools give what they would give if the
\* manifests that do not parse were not there: no entry for such a manifest, the
\* severity and the entries of the other manifests as without it.
C12_MalformedManifestSkipped ==
  [][ /\ (tool = "detector" /\ pc = "det_pkgs" /\ pc' = "det_procs") =>
           LET w == findFilesD("package.json", Cwd, files, dirs) IN
           /\ findings' = ScanAll(findings, SelectSeq(w.results, WellFormed),
                                  files, dirs, manifest)
           /\ \A i \in SuspiciousAt(findings') :
                WellFormed(findings'.suspiciousPackages[i].path)
      /\ (tool = "cleanup" /\ pc = "pkgs_scan" /\ pc' # "pkgs_scan") =>
           LET packageFiles == findFilesC("package.json", Cwd, files, dirs) IN
           /\ infectedPackages' =
                DiscoverPackages(<<>>, SelectSeq(packageFiles, WellFormed),
                                 files, dirs, manifest)
           /\ \A i \in 1..Len(infectedPackages') : WellFormed(infectedPackages'[i].path)
    ]_vars

\* the dependency's manifest, walked first, does not parse; the scan went on to
\* the project's manifest and reported it, and only it
C12_Witness ==
  /\ tool = "detector" /\ pc = "det_procs"
  /\ PkgAManifest \in files /\ ~manifest[PkgAManifest].ok
  /\ Len(findings.suspiciousPackages) = 1
  /\ findings.suspiciousPackages[1].path = RootManifest

\* a finding of the Critical tier: a file, a directory, a process, or a package
\* found by its script
CriticalTier(fnd) ==
  \/ fnd.maliciousFiles # <<>>
  \/ fnd.maliciousDirectories # <<>>
  \/ fnd.runningProcesses # <<>>
  \/ \E i \in SuspiciousAt(fnd) : fnd.suspiciousPackages[i].hasScript

\* C13: whenever findings holds a finding of the Critical tier the severity is
\* critical, at the end of the pass and at every point before it; the report
\* written at the end carries that severity.
C13_CriticalTierIsCritical ==
  /\ CriticalTier(findings) => findings.severity = "critical"
  /\ (tool = "detector" /\ pc = "det_done") =>
       report = << [severity |-> findings.severity, findings |-> findings] >>

\* a pass that found a running process and nothing else, credentials aside
C13_Witness ==
  /\ tool = "detector" /\ pc = "det_done"
  /\ findings.runningProcesses = << "trufflehog" >>
  /\ findings.maliciousFiles = <<>> /\ findings.maliciousDirectories = <<>>
  /\ findings.suspiciousPackages = <<>>
  /\ findings.stolenCredentials # <<>>
  /\ findings.severity = "critical"

\* a package found by the files beside its manifest only
FilesOnly(fnd) ==
  \E i \in SuspiciousAt(fnd) :
    fnd.suspiciousPackages[i].hasFiles /\ ~fnd.suspiciousPackages[i].hasScript

\* C14: at the end of a pass whose findings hold a package found only by its
\* files and no finding of the Critical tier, the severity is high.
C14_FilesOnlyIsHigh ==
  (tool = "detector" /\ pc = "det_done" /\ FilesOnly(findings) /\ ~CriticalTier(findings))
    => findings.severity = "high"

\* setup_bun.js lies beside the project's clean manifest, outside node_modules
C14_Witness ==
  /\ tool = "detector" /\ pc = "det_done"
  /\ FilesOnly(findings) /\ ~CriticalTier(findings)
  /\ findings.suspiciousPackages[1].path = RootManifest
  /\ findings.suspiciousPackages[1].files = << "setup_bun.js" >>
  /\ findings.stolenCredentials # <<>>
  /\ findings.severity = "high"

\* findings holds nothing but credential warnings
OnlyCredentials(fnd) ==
  /\ fnd.maliciousFiles = <<>> /\ fnd.maliciousDirectories = <<>>
  /\ fnd.suspiciousPackages = <<>> /\ fnd.runningProcesses = <<>>

\* C15: findings that hold only credential warnings have severity none, and
\* checkCredentialExposure leaves the severity as it found it, and every other
\* list of findings too.
C15_CredentialsNeverRaise ==
  /\ [](OnlyCredentials(findings) => findings.severity = "none")
  /\ [][(tool = "detector" /\ pc = "det_creds" /\ pc' = "det_report") =>
          /\ findings'.severity = findings.severity
          /\ [findings' EXCEPT !.stolenCredentials = <<>>] =
               [findings EXCEPT !.stolenCredentials = <<>>]
       ]_vars

\* a clean host with credentials on it
C15_Witness ==
  /\ tool = "detector" /\ pc = "det_done"
  /\ OnlyCredentials(findings)
  /\ Len(findings.stolenCredentials) >= 4
  /\ findings.severity = "none"

\* the order of the severities, lines 962 and 1297-1303
Rank(severity) ==
  CASE severity = "none" -> 0
    [] severity = "low" -> 1
    [] severity = "medium" -> 2
    [] severity = "high" -> 3
    [] severity = "critical" -> 4

\* C16: within a pass no step lowers the severity, whatever it adds to findings,
\* and findings that hold nothing have severity none.
C16_SeverityMonotonic ==
  /\ []((OnlyCredentials(findings) /\ findings.stolenCredentials = <<>>)
          => findings.severity = "none")
  /\ [][(tool = "detector" /\ passes' = passes) =>
          Rank(findings'.severity) >= Rank(findings.severity)]_vars

\* the severity was critical when scanPackages found a package by its files only
C16_Witness ==
  /\ tool = "detector" /\ pc = "det_procs"
  /\ findings.maliciousFiles # <<>>
  /\ FilesOnly(findings)
  /\ findings.severity = "critical"

CatalogFiles ==
  { f \in files :
      \/ f \in Range(CacheFiles)
      \/ IsUnder(f, NodeModules) /\ Basename(f) \in { "bun_environment.js", "setup_bun.js" } }

CatalogDirs == { d \in dirs : d \in Range(DirsToCheck) }

Count(seq, x) == Cardinality({ i \in 1..Len(seq) : seq[i] = x })

BelowNestedNodeModules(p) ==
  \E i, j \in 1..(Len(p) - 1) : i < j /\ p[i] = "node_modules" /\ p[j] = "node_modules"

SecretPieces ==
  UNION { Range(environ[i].value) : i \in 1..Len(environ) }
    \cup UNION { Range(npmrc[p].text) : p \in DOMAIN npmrc }

\* the pieces of the names of process.env and the segments of the credential paths
NamePieces ==
  UNION { Range(environ[i].key) : i \in 1..Len(environ) }
    \cup Range(NpmrcPaths[1]) \cup Range(NpmrcPaths[2])
    \cup Range(AwsConfigPath) \cup Range(GcpConfigPath)

\* C19: every credential warning, in findings and in the report, is a fixed text
\* followed by pieces of a variable's name or of a file's path, and holds no piece
\* of a variable's value or of a file's content.
C19_NoCredentialContents ==
  \A fnd \in { findings } \cup { report[i].findings : i \in 1..Len(report) } :
    \A k \in 1..Len(fnd.stolenCredentials) :
      LET w == fnd.stolenCredentials[k] IN
      /\ Range(Tail(w)) \subseteq NamePieces
      /\ Range(w) \cap SecretPieces = {}

\* MY_VAR was matched by its value, and the warning names MY_VAR
C19_Witness ==
  /\ tool = "detector" /\ pc = "det_done"
  /\ \E k \in 1..Len(findings.stolenCredentials) :
       findings.stolenCredentials[k] = GithubWarning(<< "MY_VAR" >>, <<>>)
  /\ \E i \in 1..Len(environ) :
       environ[i].key = << "MY_VAR" >> /\ ChunkIncludes(environ[i].value, "gho_")

\* the listed packages whose iteration of the cleaning loop is over
Cleaned ==
  IF pc = "pkgs_clean" THEN 1..(idx - 1)
  ELSE IF "pkgs" \in finished /\ answer["pkgs"] \in Affirmative
         THEN 1..Len(infectedPackages)
         ELSE {}

\* C20: once the cleaning of a listed package is over, the deletion of each
\* malicious file recorded for it has been attempted, whether or not its manifest
\* could be read, parsed and rewritten.
C20_PackageFilesAlwaysAttempted ==
  tool = "cleanup" =>
    \A k \in Cleaned :
      \A f \in Range(infectedPackages[k].maliciousFiles) :
        \E i \in OpsOf("pkgs") : oplog[i].op = "unlink" /\ oplog[i].target = f

\* C22: after scanPackages, every manifest the walk returned that parses and
\* has setup_bun.js or bun_environment.js in its own directory has a finding,
\* whatever its preinstall entry is.
C22_FilesCheckIndependent ==
  (tool = "detector" /\ pc \in AfterScanPackages) =>
    LET w == findFilesD("package.json", Cwd, files, dirs) IN
    \A k \in 1..Len(w.results) :
      LET p == w.results[k] IN
      (WellFormed(p) /\ PresentNames(Dirname(p), files, dirs) # <<>>) =>
        \E i \in SuspiciousAt(findings) : findings.suspiciousPackages[i].path = p

----------------------------------------------------------------------------
\* The tree walkers

CatalogNames == { "bun_environment.js", "setup_bun.js" }

Walk(filename, root, threw, results) ==
  [filename |-> filename, root |-> root, threw |-> threw, results |-> results]

\* the calls of findFiles the running tool makes at its present position, each
\* with what it gives on the present filesystem
Walks ==
  IF tool = "cleanup" /\ pc = "files_scan"
    THEN { Walk(n, NodeModules, FALSE, findFilesC(n, NodeModules, files, dirs)) :
             n \in CatalogNames }
  ELSE IF tool = "cleanup" /\ pc = "pkgs_scan"
    THEN { Walk("package.json", Cwd, FALSE, findFilesC("package.json", Cwd, files, dirs)) }
  ELSE IF tool = "detector" /\ pc = "det_files"
    THEN { LET w == findNodeModulesFiles(n, files, dirs)
           IN Walk(n, NodeModules, w.threw, w.results) : n \in CatalogNames }
  ELSE IF tool = "detector" /\ pc = "det_pkgs"
    THEN { Walk("package.json", Cwd, w.threw, w.results) :
             w \in { findFilesD("package.json", Cwd, files, dirs) } }
  ELSE {}

\* C23: no path a walk returns lies in a directory more than maxDepth levels
\* below the root the caller passed.
C23_DepthLimited ==
  \A w \in Walks : \A i \in 1..Len(w.results) :
    Len(Dirname(w.results[i])) <= Len(w.root) + MaxDepthD

RECURSIVE HopsFrom(_, _, _, _)
HopsFrom(p, i, cur, hops) ==
  IF i > Len(p) THEN hops
  ELSE LET nxt == Append(cur, p[i]) IN
       IF nxt \in DOMAIN links THEN HopsFrom(p, i + 1, links[nxt], hops + 1)
       ELSE HopsFrom(p, i + 1, nxt, hops)

\* the number of symbolic links on the path p
Hops(p) == HopsFrom(p, 1, <<>>, 0)

\* C24: on a host with a cycle of symbolic links the walk is ended by its own
\* depth check: no path it returns goes round the cycle more than maxDepth
\* times.
C24_CycleCutByDepthCheck ==
  \A w \in Walks : \A i \in 1..Len(w.results) : Hops(w.results[i]) <= MaxDepthD

MarkerCount(p) == Cardinality({ i \in 1..Len(p) : p[i] = "node_modules" })

\* the files named filename below root that a walk can reach: in no directory
\* that cannot be listed, and below no node_modules inside a node_modules
Reachable(filename, root) ==
  { f \in files :
      /\ Basename(f) = filename
      /\ Len(f) > Len(root) /\ IsUnder(f, root)
      /\ MarkerCount(Dirname(f)) <= 1
      /\ \A n \in Len(root)..(Len(f) - 1) : SubSeq(f, 1, n) \notin unreadable }

\* C25: a walk never ends in an error, and returns every file it can reach,
\* whichever directories cannot be listed.
C25_UnreadableNeverAborts ==
  \A w \in Walks : ~w.threw /\ Reachable(w.filename, w.root) \subseteq Range(w.results)

\* C26: a walk returns the files of its name below its root that lie below at
\* most one node_modules directory, the root's own path counted, and no others.
C26_SkipRule ==
  \A w \in Walks :
    ~w.threw => { Real(w.results[i]).path : i \in 1..Len(w.results) }
                  = Reachable(w.filename, w.root)

\* a walk returns a file under node_modules while a file of the same name lies
\* below a nested node_modules
C26_Witness ==
  \E w \in Walks :
    /\ \E i \in 1..Len(w.results) : MarkerCount(w.results[i]) = 1
    /\ \E f \in files : Basename(f) = w.filename /\ MarkerCount(Dirname(f)) >= 2

----------------------------------------------------------------------------
\* The detect pass: failures of its probes

ProbePcs == { "det_files", "det_dirs", "det_pkgs", "det_procs", "det_creds" }

\* C27: no scan of the detect pass ends the run: from every scan the pass goes
\* on to the next scan or to the report, never to the exit with status 1.
C27_ProbeFailureNeverStops ==
  [][(tool = "detector" /\ pc \in ProbePcs) => pc' # "det_fatal"]_vars

----------------------------------------------------------------------------
\* The detect pass: the severity and the order of the scans

\* the precedence rule, applied once to a complete set of findings
Precedence(fnd) ==
  IF CriticalTier(fnd) THEN "critical"
  ELSE IF FilesOnly(fnd) THEN "high"
  ELSE "none"

\* what the scans meet on the present host
ScanInputs ==
  [files |-> FilesFound(files, dirs).results,
   directories |-> DirsFound(files, dirs),
   packages |-> findFilesD("package.json", Cwd, files, dirs).results,
   processes |-> ProcsFound(procs, psFaults),
   credentials |-> Warnings(environ, files, dirs, npmrc)]

\* every order in which main could call its scans
ScanOrders ==
  { [i \in 1..Len(ScanOrder) |-> ScanOrder[o[i]]] : o \in Permutations(1..Len(ScanOrder)) }

\* lists no longer than this are tried in every order, longer ones forwards and
\* backwards
MaxPermuted == 4

Reversed(seq) == [i \in 1..Len(seq) |-> seq[Len(seq) + 1 - i]]

Enumerations(seq) ==
  IF Len(seq) <= MaxPermuted
    THEN { [i \in 1..Len(seq) |-> seq[o[i]]] : o \in Permutations(1..Len(seq)) }
    ELSE { seq, Reversed(seq) }

SameFindings(a, b) ==
  /\ Range(a.maliciousFiles) = Range(b.maliciousFiles)
  /\ Range(a.maliciousDirectories) = Range(b.maliciousDirectories)
  /\ Range(a.suspiciousPackages) = Range(b.suspiciousPackages)
  /\ Range(a.runningProcesses) = Range(b.runningProcesses)
  /\ a.stolenCredentials = b.stolenCredentials

\* C21: when the scans of a pass are over, the severity is what the precedence
\* rule gives for the findings; and the scans run in any other order, or over
\* the manifests, files and directories in any other order, end with the same
\* findings and the same severity.
C21_SeverityIsFunctionOfFindings ==
  (tool = "detector" /\ pc \in { "det_report", "det_done" }) =>
    /\ findings.severity = Precedence(findings)
    /\ pc = "det_report" =>
         \A found \in { ScanInputs } :
           /\ \A order \in ScanOrders :
                \E r \in { RunScans(order, 1, NoFindings, found) } :
                  r.severity = findings.severity /\ SameFindings(r, findings)
           /\ \A pk \in Enumerations(found.packages), fl \in Enumerations(found.files),
                 dr \in Enumerations(found.directories) :
                \E r \in { RunScans(ScanOrder, 1, NoFindings,
                                    [found EXCEPT !.packages = pk, !.files = fl,
                                                  !.directories = dr]) } :
                  r.severity = findings.severity /\ SameFindings(r, findings)

\* the scans are over on a host with a running process and a dropped file
\* beside a clean manifest: the two raise the severity to different levels
C21_Witness ==
  /\ tool = "detector" /\ pc = "det_report"
  /\ FilesOnly(findings) /\ findings.runningProcesses # <<>>
  /\ findings.maliciousFiles = <<>> /\ findings.maliciousDirectories = <<>>
  /\ findings.severity = "critical"

----------------------------------------------------------------------------
\* Package cleanup and the edits made since its discovery

\* C28: an iteration of the cleanup loop works on the manifest as it is on disk
\* at that moment: every field other than scripts, and every script other than
\* preinstall, is after the iteration what it was just before it, edits made
\* since the discovery included; and a manifest whose preinstall entry is not
\* malicious at that moment is left as it is.
C28_CleanupUsesPresentManifest ==
  [][(tool = "cleanup" /\ pc = "pkgs_clean" /\ idx' = idx + 1) =>
       LET p == infectedPackages[idx].path IN
       (p \in DOMAIN manifest /\ p \in DOMAIN manifest' /\ manifest[p].ok) =>
         /\ manifest'[p].ok
         /\ \A k \in DOMAIN manifest[p].json \ { "scripts" } :
              k \in DOMAIN manifest'[p].json /\ manifest'[p].json[k] = manifest[p].json[k]
         /\ "scripts" \in DOMAIN manifest[p].json =>
              \A k \in DOMAIN manifest[p].json.scripts \ { "preinstall" } :
                manifest'[p].json.scripts[k] = manifest[p].json.scripts[k]
         /\ ~MaliciousPreinstall(manifest[p].json) => manifest'[p] = manifest[p]
    ]_vars

\* the project's manifest got a new version while the prompt waited, and was
\* then rewritten without its preinstall entry
C28_Witness ==
  /\ RootManifest \in DOMAIN manifest
  /\ manifest[RootManifest] =
       Text("indent2", [name |-> "pkg", version |-> "1.0.1",
                        scripts |-> [postinstall |-> ScriptBenign]])
  /\ \E i \in OpsOf("pkgs") :
       oplog[i].op = "write" /\ oplog[i].target = RootManifest /\ oplog[i].ok

----------------------------------------------------------------------------
\* The two tools on the same host

\* what the discoveries of steps 2, 3 and 4 of the cleanup list on the present
\* filesystem
FilesListed == DiscoverFiles(files, dirs)
DirsListed == SelectSeq(DirsToRemove, LAMBDA d : Exists(d, files, dirs))
PackagesListed ==
  DiscoverPackages(<<>>, findFilesC("package.json", Cwd, files, dirs), files, dirs, manifest)

\* p is a target of step 2 or 3, or lies inside a directory step 3 removes
CoveredPath(p) ==
  \/ p \in Range(FilesListed)
  \/ \E i \in 1..Len(DirsListed) : IsUnder(p, DirsListed[i])

\* the package finding s of the detector is a target of step 4, for the same
\* reasons
CoveredPackage(s) ==
  \E pkgs \in { PackagesListed } : \E i \in 1..Len(pkgs) :
    /\ pkgs[i].path = s.path
    /\ s.hasScript => pkgs[i].hasPreinstall
    /\ s.hasFiles =>
         { Basename(pkgs[i].maliciousFiles[k]) : k \in 1..Len(pkgs[i].maliciousFiles) }
           = Range(s.files)

\* C29: at the end of a detect pass, every file and directory in the findings
\* is a target of the cleanup's file or directory step on the same filesystem,
\* or lies inside a directory that is one, and every package in the findings is
\* a target of its package step.
C29_RemediateCoversDetect ==
  (tool = "detector" /\ pc = "det_done") =>
    /\ \A i \in 1..Len(findings.maliciousFiles) : CoveredPath(findings.maliciousFiles[i])
    /\ \A i \in 1..Len(findings.maliciousDirectories) :
         CoveredPath(findings.maliciousDirectories[i])
    /\ \A i \in SuspiciousAt(findings) : CoveredPackage(findings.suspiciousPackages[i])

\* the detector found the cache with its extract directory, a dropped file and
\* two packages
C29_Witness ==
  /\ tool = "detector" /\ pc = "det_done"
  /\ findings.maliciousDirectories = << CacheDir, ExtractDir >>
  /\ Len(findings.maliciousFiles) >= 2
  /\ Len(findings.suspiciousPackages) >= 2

\* a remediate run is complete: the operator declined none of steps 2 to 4, no
\* operation of these steps failed, and nothing else changed the filesystem
CleanRun ==
  /\ tool = "cleanup" /\ pc = "complete"
  /\ envLeft = MaxEnvSteps
  /\ \A s \in { "files", "dirs", "pkgs" } :
       answer[s] \in Affirmative \cup { "" } /\ FailedOps(s) = {}

----------------------------------------------------------------------------
\* The final summary of the remediate pass

\* lines 493-512 have been printed: CLEANUP COMPLETE, Files removed, Directories
\* removed, Packages cleaned, Safe to proceed with credential revocation
SummaryPrinted == tool = "cleanup" /\ pc = "complete"

\* everything steps 2, 3 and 4 of this run listed is gone: the files, the
\* directories, the files beside the listed manifests, and the malicious
\* preinstall entry of every listed manifest still on disk
AllListedRemoved ==
  /\ \A i \in 1..Len(filesToRemove) : ~Exists(filesToRemove[i], files, dirs)
  /\ \A i \in 1..Len(existingDirs) : ~Exists(existingDirs[i], files, dirs)
  /\ \A i \in 1..Len(infectedPackages) :
       LET pkg == infectedPackages[i] IN
       /\ \A k \in 1..Len(pkg.maliciousFiles) : ~Exists(pkg.maliciousFiles[k], files, dirs)
       /\ (pkg.path \in files /\ manifest[pkg.path].ok) =>
            ~MaliciousPreinstall(manifest[pkg.path].json)

\* C31: the summary is printed only when everything the run listed has been
\* removed.
C31_SummaryOnlyWhenRemoved == SummaryPrinted => AllListedRemoved

====
